---- MODULE Spec2Model ----
(***************************************************************************)
(* Model of the script/process integration engine of nominal-io/connect:   *)
(*   src/src/executors/streaming.rs  (StreamManager, update_streams,       *)
(*                                    check_process_status, ZMQ listener)  *)
(*   src/src/executors/discrete.rs   (execute_script and helpers)          *)
(*   src/src/types.rs                (TableData, deserialize_string_array) *)
(*                                                                         *)
(* f64 values are abstracted to small integers, Rust Strings of script     *)
(* output to sequences of tokens, names and result keys to sequences of    *)
(* one-character strings.  Option<T> is a sequence of length 0 or 1.       *)
(***************************************************************************)
EXTENDS Integers, Sequences, FiniteSets, TLC

\* ------------------------------------------------------------------ bounds
\* Buffer capacities, scaled down from 100 and 10_000 so that eviction
\* happens within the explored runs.
MAX_CHANNEL_STREAM_POINTS == 2
MAX_FLIGHT_STREAM_POINTS == 3
\* Total number of telemetry messages the socket delivers (SpecData).
MaxMsgs == 4
\* Total number of streaming worker processes ever spawned (SpecProc).
MaxProcs == 2
\* Number of start_streaming() calls explored.
MaxRuns == 2
\* The same limits for Spec, which runs every component together.
SmallMsgs == 1
SmallProcs == 1
\* Number of stdout lines a discrete worker writes (SpecDiscrete).
MaxLines == 2
\* Chunks an OS pipe buffers before a write to it blocks (SpecPipes).
PipeCapacity == 1
\* Number of steps of a discrete worker's program (SpecPipes).
MaxChunks == 3
\* Messages delivered and locks poisoned where lock failures are explored
\* (SpecLocks).
OneMsg == 1
MaxPoisoned == 1
\* Threads that call engine operations at the same time.
MaxThreads == 3

None == <<>>
Some(x) == <<x>>

VARIABLES
    running,              \* StreamManager.running
    streams,              \* StreamManager.streams : stream_id -> Vec<StreamPoint>
    channel,              \* bounded crossbeam channel sender -> receiver
    streaming_processes,  \* StreamManager.streaming_processes : Vec<Child>
    process_statuses,     \* StreamManager.process_statuses : Vec<ProcessStatus>
    os_procs,             \* operating-system state of every spawned child
    l_pc,                 \* position of the ZMQ listener thread
    l_data,               \* message the listener has parsed and is sending
    u_pc,                 \* position of the main thread inside update_streams
    g_received,           \* history: number of messages the socket delivered
    g_run,                \* history: number of start_streaming() calls so far
    g_drained,            \* history: per stream, messages appended this run
    g_stale,              \* history: timestamps queued at some stop_streaming()
    g_holds,              \* history: holds of the streams lock by the drain in progress
    g_last_op,            \* history: the main thread's latest operation
    g_locks,              \* history: most locks that operation held at once
    poisoned,             \* the engine's mutexes whose lock() returns Err
    panicked,             \* a panic has left an engine operation
    script_results,       \* AppState.script_results : key -> String
    script_tables,        \* AppState.script_tables : key -> TableData
    d_pc,                 \* position of the main thread inside execute_script
    d_script,             \* the ScriptConfig of the current or latest run
    d_function,           \* its function_name : Option<&str>
    d_args,               \* arguments of the command after the script path
    d_stdin,              \* what has been written to the worker's stdin
    d_output,             \* `output` of spawn_and_run_script
    g_lines,              \* history: stdout lines read in this run
    g_exit,               \* history: how the run's spawn and wait ended
    g_pre_results,        \* history: script_results when the run began
    g_pre_tables,         \* history: script_tables when the run began
    p_pc,                 \* position of spawn_and_run_script, pipes in view
    p_functions,          \* whether script.functions is non-empty
    p_stdin_open,         \* the executor still holds the child's stdin
    p_stdin,              \* chunks buffered in the stdin pipe
    p_stderr,             \* chunks buffered in the stderr pipe
    p_stdout,             \* chunks buffered in the stdout pipe
    w_todo,               \* the steps the worker has still to take
    t_op,                 \* per thread, the engine operation it is in
    t_held                \* per thread, the locks it holds, in order taken

svars == <<running, streams, channel, streaming_processes, process_statuses,
           os_procs, l_pc, l_data, u_pc, g_received, g_run, g_drained,
           g_stale, g_holds, g_last_op, g_locks, poisoned, panicked>>

rvars == <<script_results, script_tables, d_pc, d_script, d_function, d_args,
           d_stdin, d_output, g_lines, g_exit, g_pre_results, g_pre_tables>>

pvars == <<p_pc, p_functions, p_stdin_open, p_stdin, p_stderr, p_stdout, w_todo>>

tvars == <<t_op, t_held>>

dvars == <<rvars, pvars, tvars>>

vars == <<svars, dvars>>

\* ------------------------------------------------------- telemetry messages
StreamIds == {"single_scalar_channel", "flight_position"}

\* The JSON objects a worker may put on the wire as its n-th message.  A JSON
\* object is a function from the field names present to their values.
WireMessages(n) ==
    { [stream_id |-> "single_scalar_channel", timestamp |-> n, value |-> n + 10],
      [stream_id |-> "flight_position", timestamp |-> n, rel_lat |-> n + 10,
       rel_lon |-> n + 20, altitude |-> n + 30, pitch |-> n + 40,
       roll |-> n + 50, yaw |-> n + 60],
      [stream_id |-> "flight_position", timestamp |-> n, rel_lat |-> n + 15,
       rel_lon |-> n + 25, altitude |-> n + 35],
      [stream_id |-> "unknown_stream", timestamp |-> n, value |-> n + 10],
      [timestamp |-> n, value |-> n + 10] }

\* Mutant of serde_default: an absent field is given 1.0.
serde_default_one(obj, field) == IF field \in DOMAIN obj THEN obj[field] ELSE 1

\* #[serde(default)] on an f64 field: 0.0 when the field is absent.
serde_default(obj, field) == IF field \in DOMAIN obj THEN obj[field] ELSE 0

\* serde_json::from_str::<StreamData>: stream_id and timestamp are required.
StreamData_parses(obj) == {"stream_id", "timestamp"} \subseteq DOMAIN obj

StreamData_from_str(obj) ==
    [stream_id |-> obj.stream_id,
     timestamp |-> obj.timestamp,
     value     |-> serde_default(obj, "value"),
     rel_lat   |-> serde_default(obj, "rel_lat"),
     rel_lon   |-> serde_default(obj, "rel_lon"),
     altitude  |-> serde_default(obj, "altitude"),
     pitch     |-> serde_default(obj, "pitch"),
     roll      |-> serde_default(obj, "roll"),
     yaw       |-> serde_default(obj, "yaw")]

Plot2D(data) == [kind |-> "Plot2D", coords |-> <<data.timestamp, data.value>>]

FlightData(data) ==
    [kind |-> "FlightData",
     coords |-> <<data.rel_lat, data.rel_lon, data.altitude,
                  data.pitch, data.roll, data.yaw>>]

\* StreamPoint::as_flight_data
as_flight_data(point) ==
    IF point.kind = "FlightData" THEN Some(point.coords) ELSE None

\* update_cube_position: the names to which the cube system binds the six
\* components of the newest flight record,
\* `Some([lat, lon, alt, yaw, pitch, roll]) = last_point.as_flight_data()`.
update_cube_position_reads(points) ==
    IF points # <<>> /\ as_flight_data(points[Len(points)]) # None
    THEN Some([lat   |-> as_flight_data(points[Len(points)])[1][1],
               lon   |-> as_flight_data(points[Len(points)])[1][2],
               alt   |-> as_flight_data(points[Len(points)])[1][3],
               yaw   |-> as_flight_data(points[Len(points)])[1][4],
               pitch |-> as_flight_data(points[Len(points)])[1][5],
               roll  |-> as_flight_data(points[Len(points)])[1][6]])
    ELSE None

\* ----------------------------------------------------------- process status
Running == [tag |-> "Running", code |-> None]
Finished == [tag |-> "Finished", code |-> None]
Stopped == [tag |-> "Stopped", code |-> None]
Failed(code) == [tag |-> "Failed", code |-> code]

\* Operating-system states of a spawned child: alive, exited with a code,
\* terminated by a signal of its own, killed by Child::kill, or lost: ended
\* and reaped behind the Child's back, so that every later wait call on it
\* fails.  os_procs[pid] is the state of the pid-th child spawned.
OsStates == {"alive", "exit0", "exit1", "signal", "killed", "lost"}

\* ------------------------------------------------------------------ helpers
\* HashMap::clear
EmptyMap == [k \in {} |-> <<>>]

\* Mutant of remove_first: drops the newest element instead of the oldest.
remove_first_drops_newest(points) == SubSeq(points, 1, Len(points) - 1)

\* Vec::remove(0)
remove_first(points) == SubSeq(points, 2, Len(points))

\* Mutant of kill: the child is left running.
kill_leaves_alive(os, pid) == os

\* Child::kill on one process: an already-exited child is left as it is.
kill(os, pid) == IF os[pid] = "alive" THEN [os EXCEPT ![pid] = "killed"] ELSE os

RECURSIVE kill_all(_, _)
kill_all(os, processes) ==
    IF processes = <<>> THEN os
    ELSE kill_all(kill(os, Head(processes)), Tail(processes))

\* The four mutexes of the StreamManager.
Locks == {"running", "streams", "streaming_processes", "process_statuses"}

\* `if let Ok(guard) = mutex.lock()`: Err once the mutex is poisoned.
lock_ok(lock) == lock \notin poisoned

\* Locks taken one after the other, each released before the next: one is
\* held at a time if any of them can be taken.
held_in_sequence(locks) == IF locks \subseteq poisoned THEN 0 ELSE 1

\* A lock taken while another is held: both are held if both can be taken.
held_nested(outer, inner) ==
    IF lock_ok(outer) /\ lock_ok(inner) THEN 2
    ELSE IF lock_ok(outer) THEN 1 ELSE 0

\* Mutant of MainIdle: the main thread's operations need the listener thread
\* alive.
MainIdle_needs_listener ==
    u_pc = "idle" /\ d_pc = "idle" /\ ~panicked /\ l_pc # "exited"

\* The main thread is in neither update_streams nor execute_script.  The
\* lifecycle methods take &mut self and the systems take ResMut<StreamManager>,
\* so they never overlap one another; only the listener thread, which shares
\* the running flag and the channel, runs beside them.
MainIdle == u_pc = "idle" /\ d_pc = "idle" /\ ~panicked

\* ------------------------------------------------------------------- Init
InitStreaming ==
    /\ running = FALSE
    /\ streams = EmptyMap
    /\ channel = <<>>
    /\ streaming_processes = <<>>
    /\ process_statuses = <<>>
    /\ os_procs = <<>>
    /\ l_pc = "connect"
    /\ l_data = None
    /\ u_pc = "idle"
    /\ g_received = 0
    /\ g_run = 0
    /\ g_drained = [k \in StreamIds |-> <<>>]
    /\ g_stale = {}
    /\ g_holds = 0
    /\ g_last_op = "none"
    /\ g_locks = 0
    /\ poisoned = {}
    /\ panicked = FALSE

InitDiscrete ==
    /\ script_results = EmptyMap
    /\ script_tables = EmptyMap
    /\ d_pc = "idle"
    /\ d_script = [name |-> <<>>, functions |-> <<>>]
    /\ d_function = None
    /\ d_args = <<>>
    /\ d_stdin = None
    /\ d_output = <<>>
    /\ g_lines = <<>>
    /\ g_exit = "none"
    /\ g_pre_results = EmptyMap
    /\ g_pre_tables = EmptyMap

InitPipes ==
    /\ p_pc = "idle"
    /\ p_functions = FALSE
    /\ p_stdin_open = FALSE
    /\ p_stdin = 0
    /\ p_stderr = 0
    /\ p_stdout = 0
    /\ w_todo = <<>>

InitThreads ==
    /\ t_op = [t \in 1..MaxThreads |-> "none"]
    /\ t_held = [t \in 1..MaxThreads |-> <<>>]

Init == InitStreaming /\ InitDiscrete /\ InitPipes /\ InitThreads

\* -------------------------------------------------- StreamManager lifecycle
\* start_streaming: kill and clear the processes, clear the streams, set the
\* flag.  process_statuses is not touched.
start_streaming ==
    /\ MainIdle
    /\ g_run < MaxRuns
    /\ IF lock_ok("streaming_processes")
       THEN /\ os_procs' = kill_all(os_procs, streaming_processes)
            /\ streaming_processes' = <<>>
       ELSE UNCHANGED <<os_procs, streaming_processes>>
    /\ IF lock_ok("streams")
       THEN /\ streams' = EmptyMap
            /\ g_drained' = [k \in StreamIds |-> <<>>]
       ELSE UNCHANGED <<streams, g_drained>>
    /\ running' = IF lock_ok("running") THEN TRUE ELSE running
    /\ g_run' = g_run + 1
    /\ g_last_op' = IF g_last_op = "stop" THEN "stop_start" ELSE "start"
    /\ g_locks' = held_in_sequence({"streaming_processes", "streams", "running"})
    /\ UNCHANGED <<channel, process_statuses, l_pc, l_data, u_pc, g_received,
                   g_stale, g_holds>>
    /\ UNCHANGED dvars
    /\ UNCHANGED <<poisoned, panicked>>

\* Mutant of stop_streaming: the streams are not cleared.
stop_streaming_keeps_streams ==
    /\ MainIdle
    /\ running' = IF lock_ok("running") THEN FALSE ELSE running
    /\ IF lock_ok("streaming_processes")
       THEN /\ os_procs' = kill_all(os_procs, streaming_processes)
            /\ streaming_processes' = <<>>
            /\ process_statuses' =
                 IF lock_ok("process_statuses")
                 THEN [i \in DOMAIN process_statuses |-> Stopped]
                 ELSE process_statuses
       ELSE UNCHANGED <<os_procs, streaming_processes, process_statuses>>
    /\ UNCHANGED <<streams, g_drained>>
    /\ g_stale' = g_stale \cup { channel[i].timestamp : i \in DOMAIN channel }
    /\ g_last_op' = "stop"
    /\ g_locks' = IF held_nested("streaming_processes", "process_statuses") = 2
                  THEN 2
                  ELSE held_in_sequence({"running", "streaming_processes",
                                         "streams"})
    /\ UNCHANGED <<channel, l_pc, l_data, u_pc, g_received, g_run, g_holds>>
    /\ UNCHANGED dvars
    /\ UNCHANGED <<poisoned, panicked>>

\* stop_streaming: clear the flag, kill and clear the processes, mark every
\* status Stopped, clear the streams.  The channel is not touched.
stop_streaming ==
    /\ MainIdle
    /\ running' = IF lock_ok("running") THEN FALSE ELSE running
    /\ IF lock_ok("streaming_processes")
       THEN /\ os_procs' = kill_all(os_procs, streaming_processes)
            /\ streaming_processes' = <<>>
            /\ process_statuses' =
                 IF lock_ok("process_statuses")
                 THEN [i \in DOMAIN process_statuses |-> Stopped]
                 ELSE process_statuses
       ELSE UNCHANGED <<os_procs, streaming_processes, process_statuses>>
    /\ IF lock_ok("streams")
       THEN /\ streams' = EmptyMap
            /\ g_drained' = [k \in StreamIds |-> <<>>]
       ELSE UNCHANGED <<streams, g_drained>>
    /\ g_stale' = g_stale \cup { channel[i].timestamp : i \in DOMAIN channel }
    /\ g_last_op' = "stop"
    /\ g_locks' = IF held_nested("streaming_processes", "process_statuses") = 2
                  THEN 2
                  ELSE held_in_sequence({"running", "streaming_processes",
                                         "streams"})
    /\ UNCHANGED <<channel, l_pc, l_data, u_pc, g_received, g_run, g_holds>>
    /\ UNCHANGED dvars
    /\ UNCHANGED <<poisoned, panicked>>

\* is_running
is_running == IF lock_ok("running") THEN running ELSE FALSE

\* add_streaming_process, with the spawn its caller performs: push the child
\* and an initial Stopped status.  The callers register a process only right
\* after start_streaming, in the same handler.
add_streaming_process(max_procs) ==
    /\ MainIdle
    /\ running
    /\ Len(os_procs) < max_procs
    /\ os_procs' = Append(os_procs, "alive")
    /\ IF lock_ok("streaming_processes")
       THEN /\ streaming_processes' =
                 Append(streaming_processes, Len(os_procs) + 1)
            /\ process_statuses' =
                 IF lock_ok("process_statuses")
                 THEN Append(process_statuses, Stopped)
                 ELSE process_statuses
       ELSE UNCHANGED <<streaming_processes, process_statuses>>
    /\ g_last_op' = "add_streaming_process"
    /\ g_locks' = held_nested("streaming_processes", "process_statuses")
    /\ UNCHANGED <<running, streams, channel, l_pc, l_data, u_pc, g_received,
                   g_run, g_drained, g_stale, g_holds>>
    /\ UNCHANGED dvars
    /\ UNCHANGED <<poisoned, panicked>>

\* A streaming worker ends by itself.
process_exits ==
    /\ \E pid \in DOMAIN os_procs, how \in {"exit0", "exit1", "signal", "lost"} :
        /\ os_procs[pid] = "alive"
        /\ os_procs' = [os_procs EXCEPT ![pid] = how]
    /\ UNCHANGED <<running, streams, channel, streaming_processes,
                   process_statuses, l_pc, l_data, u_pc, g_received, g_run,
                   g_drained, g_stale, g_holds,
                   g_last_op>>
    /\ UNCHANGED dvars
    /\ UNCHANGED <<g_locks, poisoned, panicked>>

\* ------------------------------------------------------ check_process_status
\* Mutant of status_of_try_wait: a process ended by a signal is reported as
\* stopped.
status_of_try_wait_signal_is_stopped(os_state, wait_fails) ==
    IF wait_fails THEN Failed(None)
    ELSE IF os_state = "alive" THEN Running
    ELSE IF os_state = "exit0" THEN Finished
    ELSE IF os_state = "exit1" THEN Failed(Some(1))
    ELSE Stopped

\* Mutant of status_of_try_wait: a failing wait call is taken for a live
\* process.
status_of_try_wait_error_is_running(os_state, wait_fails) ==
    IF wait_fails \/ os_state = "alive" THEN Running
    ELSE IF os_state = "exit0" THEN Finished
    ELSE IF os_state = "exit1" THEN Failed(Some(1))
    ELSE Failed(None)

\* Child::try_wait followed by the match of check_process_status.
status_of_try_wait(os_state, wait_fails) ==
    IF wait_fails THEN Failed(None)
    ELSE IF os_state = "alive" THEN Running
    ELSE IF os_state = "exit0" THEN Finished
    ELSE IF os_state = "exit1" THEN Failed(Some(1))
    ELSE Failed(None)

\* Mutant of check_process_status: the flag is cleared once no tracked
\* process is alive.
check_process_status_clears_flag ==
    /\ MainIdle
    /\ streaming_processes # <<>>
    /\ IF lock_ok("streaming_processes") /\ lock_ok("process_statuses")
       THEN process_statuses' =
              [i \in DOMAIN process_statuses |->
                  IF i \in DOMAIN streaming_processes
                  THEN status_of_try_wait(
                           os_procs[streaming_processes[i]],
                           os_procs[streaming_processes[i]] = "lost")
                  ELSE process_statuses[i]]
       ELSE UNCHANGED process_statuses
    /\ running' = IF \A i \in DOMAIN streaming_processes :
                        os_procs[streaming_processes[i]] # "alive"
                  THEN FALSE ELSE running
    /\ g_last_op' = "check_process_status"
    /\ g_locks' = Cardinality({"streaming_processes", "process_statuses"}
                              \ poisoned)
    /\ UNCHANGED <<streams, channel, streaming_processes, os_procs,
                   l_pc, l_data, u_pc, g_received, g_run, g_drained, g_stale,
                   g_holds>>
    /\ UNCHANGED dvars
    /\ UNCHANGED <<poisoned, panicked>>

check_process_status ==
    /\ MainIdle
    /\ streaming_processes # <<>>
    /\ IF lock_ok("streaming_processes") /\ lock_ok("process_statuses")
       THEN process_statuses' =
              [i \in DOMAIN process_statuses |->
                  IF i \in DOMAIN streaming_processes
                  THEN status_of_try_wait(
                           os_procs[streaming_processes[i]],
                           os_procs[streaming_processes[i]] = "lost")
                  ELSE process_statuses[i]]
       ELSE UNCHANGED process_statuses
    /\ g_last_op' = "check_process_status"
    /\ g_locks' = Cardinality({"streaming_processes", "process_statuses"}
                              \ poisoned)
    /\ UNCHANGED <<running, streams, channel, streaming_processes, os_procs,
                   l_pc, l_data, u_pc, g_received, g_run, g_drained, g_stale,
                   g_holds>>
    /\ UNCHANGED dvars
    /\ UNCHANGED <<poisoned, panicked>>

\* ------------------------------------------------------------ update_streams
\* Mutant of push_bounded: the capacity check is missing.
push_bounded_never_evicts(points, point, capacity) == Append(points, point)

\* Vec::push followed by the capacity check and Vec::remove(0).
push_bounded(points, point, capacity) ==
    IF Len(Append(points, point)) > capacity
    THEN remove_first(Append(points, point))
    ELSE Append(points, point)

\* HashMap::entry(key).or_default()
entry_or_default(map, key) == IF key \in DOMAIN map THEN map[key] ELSE <<>>

insert(map, key, value) ==
    [k \in DOMAIN map \cup {key} |-> IF k = key THEN value ELSE map[k]]

\* Mutant of route: every stream_id gets a bucket.
route_buckets_every_id(map, data) ==
    insert(map, data.stream_id,
           push_bounded(entry_or_default(map, data.stream_id),
                        IF data.stream_id = "flight_position"
                        THEN FlightData(data) ELSE Plot2D(data),
                        IF data.stream_id = "flight_position"
                        THEN MAX_FLIGHT_STREAM_POINTS
                        ELSE MAX_CHANNEL_STREAM_POINTS))

\* The match on data.stream_id, executed while the streams lock is held.
route(map, data) ==
    IF data.stream_id = "single_scalar_channel"
    THEN insert(map, data.stream_id,
                push_bounded(entry_or_default(map, data.stream_id),
                             Plot2D(data), MAX_CHANNEL_STREAM_POINTS))
    ELSE IF data.stream_id = "flight_position"
    THEN insert(map, data.stream_id,
                push_bounded(entry_or_default(map, data.stream_id),
                             FlightData(data), MAX_FLIGHT_STREAM_POINTS))
    ELSE map

\* Mutant of update_streams_enter: the running flag is not looked at.
update_streams_enter_ignores_flag ==
    /\ MainIdle
    /\ u_pc' = "loop"
    /\ g_last_op' = "update_streams"
    /\ g_locks' = held_in_sequence({"running"})
    /\ g_holds' = 0
    /\ UNCHANGED <<running, streams, channel, streaming_processes,
                   process_statuses, os_procs, l_pc, l_data, g_received,
                   g_run, g_drained, g_stale>>
    /\ UNCHANGED dvars
    /\ UNCHANGED <<poisoned, panicked>>

\* if !*running.lock().unwrap() { return; }
update_streams_enter ==
    /\ MainIdle
    /\ IF lock_ok("running")
       THEN /\ u_pc' = IF running THEN "loop" ELSE "idle"
            /\ UNCHANGED panicked
       ELSE /\ panicked' = TRUE
            /\ UNCHANGED u_pc
    /\ g_last_op' = "update_streams"
    /\ g_locks' = held_in_sequence({"running"})
    /\ g_holds' = 0
    /\ UNCHANGED <<running, streams, channel, streaming_processes,
                   process_statuses, os_procs, l_pc, l_data, g_received,
                   g_run, g_drained, g_stale>>
    /\ UNCHANGED dvars
    /\ UNCHANGED poisoned

\* Mutant of update_streams_loop: `if let` in place of `while let`, the call
\* returns after its first try_recv.
update_streams_loop_once ==
    /\ u_pc = "loop"
    /\ u_pc' = "idle"
    /\ g_holds' = 0
    /\ IF channel = <<>>
       THEN UNCHANGED <<streams, channel, g_drained>>
       ELSE /\ channel' = Tail(channel)
            /\ streams' = IF lock_ok("streams")
                          THEN route(streams, Head(channel)) ELSE streams
            /\ g_drained' =
                 IF lock_ok("streams") /\ Head(channel).stream_id \in StreamIds
                 THEN [g_drained EXCEPT ![Head(channel).stream_id] =
                                          Append(@, Head(channel))]
                 ELSE g_drained
    /\ UNCHANGED <<running, streaming_processes, process_statuses, os_procs,
                   l_pc, l_data, g_received, g_run, g_stale,
                   g_last_op>>
    /\ UNCHANGED dvars
    /\ UNCHANGED <<g_locks, poisoned, panicked>>

\* One iteration of `while let Ok(data) = receiver.try_recv()`: the streams
\* lock is taken for the one message received and released at the end of the
\* iteration.
update_streams_loop ==
    /\ u_pc = "loop"
    /\ IF channel = <<>>
       THEN /\ u_pc' = "idle"
            /\ g_holds' = 0
            /\ UNCHANGED <<streams, channel, g_drained>>
       ELSE /\ channel' = Tail(channel)
            /\ streams' = IF lock_ok("streams")
                          THEN route(streams, Head(channel)) ELSE streams
            /\ g_drained' =
                 IF lock_ok("streams") /\ Head(channel).stream_id \in StreamIds
                 THEN [g_drained EXCEPT ![Head(channel).stream_id] =
                                          Append(@, Head(channel))]
                 ELSE g_drained
            /\ g_holds' = IF lock_ok("streams") THEN g_holds + 1 ELSE g_holds
            /\ UNCHANGED u_pc
    /\ UNCHANGED <<running, streaming_processes, process_statuses, os_procs,
                   l_pc, l_data, g_received, g_run, g_stale,
                   g_last_op>>
    /\ UNCHANGED dvars
    /\ UNCHANGED <<g_locks, poisoned, panicked>>

\* ------------------------------------------------------------- ZMQ listener
\* bounded(MAX_FLIGHT_STREAM_POINTS)
ChannelCapacity == MAX_FLIGHT_STREAM_POINTS

\* Socket creation and connect: on failure the thread returns.
listener_connect ==
    /\ l_pc = "connect"
    /\ l_pc' \in {"check", "exited"}
    /\ UNCHANGED <<running, streams, channel, streaming_processes,
                   process_statuses, os_procs, l_data, u_pc, g_received,
                   g_run, g_drained, g_stale, g_holds,
                   g_last_op>>
    /\ UNCHANGED dvars
    /\ UNCHANGED <<g_locks, poisoned, panicked>>

\* Mutant of listener_check: the flag is not looked at.
listener_check_ignores_flag ==
    /\ l_pc = "check"
    /\ l_pc' = "recv"
    /\ UNCHANGED <<running, streams, channel, streaming_processes,
                   process_statuses, os_procs, l_data, u_pc, g_received,
                   g_run, g_drained, g_stale, g_holds,
                   g_last_op>>
    /\ UNCHANGED dvars
    /\ UNCHANGED <<g_locks, poisoned, panicked>>

\* Top of the loop: read the flag; sleep 100ms when it is false.
listener_check ==
    /\ l_pc = "check"
    /\ l_pc' = IF is_running THEN "recv" ELSE "sleep"
    /\ UNCHANGED <<running, streams, channel, streaming_processes,
                   process_statuses, os_procs, l_data, u_pc, g_received,
                   g_run, g_drained, g_stale, g_holds,
                   g_last_op>>
    /\ UNCHANGED dvars
    /\ UNCHANGED <<g_locks, poisoned, panicked>>

\* Mutant of listener_recv: a message that fails to parse ends the thread.
listener_recv_stops_on_bad_message(max_msgs) ==
    /\ l_pc = "recv"
    /\ \/ /\ g_received < max_msgs
          /\ g_received' = g_received + 1
          /\ \E obj \in WireMessages(g_received + 1) :
                IF StreamData_parses(obj)
                THEN /\ l_data' = Some(StreamData_from_str(obj))
                     /\ l_pc' = "send"
                ELSE /\ l_data' = None
                     /\ l_pc' = "exited"
       \/ /\ l_pc' = "sleep"
          /\ UNCHANGED <<l_data, g_received>>
    /\ UNCHANGED <<running, streams, channel, streaming_processes,
                   process_statuses, os_procs, u_pc, g_run, g_drained,
                   g_stale, g_holds,
                   g_last_op>>
    /\ UNCHANGED dvars
    /\ UNCHANGED <<g_locks, poisoned, panicked>>

\* recv_string(DONTWAIT) and serde_json::from_str::<StreamData>.
listener_recv(max_msgs) ==
    /\ l_pc = "recv"
    /\ \/ /\ g_received < max_msgs
          /\ g_received' = g_received + 1
          /\ \E obj \in WireMessages(g_received + 1) :
                IF StreamData_parses(obj)
                THEN /\ l_data' = Some(StreamData_from_str(obj))
                     /\ l_pc' = "send"
                ELSE /\ l_data' = None
                     /\ l_pc' = "sleep"
       \/ /\ l_pc' = "sleep"
          /\ UNCHANGED <<l_data, g_received>>
    /\ UNCHANGED <<running, streams, channel, streaming_processes,
                   process_statuses, os_procs, u_pc, g_run, g_drained,
                   g_stale, g_holds,
                   g_last_op>>
    /\ UNCHANGED dvars
    /\ UNCHANGED <<g_locks, poisoned, panicked>>

\* Mutant of listener_send: try_send in place of send, a message that finds
\* the channel full is dropped.
listener_send_drops_when_full ==
    /\ l_pc = "send"
    /\ channel' = IF Len(channel) < ChannelCapacity
                  THEN Append(channel, l_data[1]) ELSE channel
    /\ l_data' = None
    /\ l_pc' = "sleep"
    /\ UNCHANGED <<running, streams, streaming_processes, process_statuses,
                   os_procs, u_pc, g_received, g_run, g_drained, g_stale, g_holds,
                   g_last_op>>
    /\ UNCHANGED dvars
    /\ UNCHANGED <<g_locks, poisoned, panicked>>

\* sender.send(data): blocks while the channel is full.
listener_send ==
    /\ l_pc = "send"
    /\ Len(channel) < ChannelCapacity
    /\ channel' = Append(channel, l_data[1])
    /\ l_data' = None
    /\ l_pc' = "sleep"
    /\ UNCHANGED <<running, streams, streaming_processes, process_statuses,
                   os_procs, u_pc, g_received, g_run, g_drained, g_stale, g_holds,
                   g_last_op>>
    /\ UNCHANGED dvars
    /\ UNCHANGED <<g_locks, poisoned, panicked>>

\* Mutant of listener_wake: the flag is read once only, later iterations go
\* straight to the receive.
listener_wake_skips_check ==
    /\ l_pc = "sleep"
    /\ l_pc' = IF g_received > 0 THEN "recv" ELSE "check"
    /\ UNCHANGED <<running, streams, channel, streaming_processes,
                   process_statuses, os_procs, l_data, u_pc, g_received,
                   g_run, g_drained, g_stale, g_holds,
                   g_last_op>>
    /\ UNCHANGED dvars
    /\ UNCHANGED <<g_locks, poisoned, panicked>>

\* End of a thread::sleep (100ms idle, 10ms active): back to the loop top.
listener_wake ==
    /\ l_pc = "sleep"
    /\ l_pc' = "check"
    /\ UNCHANGED <<running, streams, channel, streaming_processes,
                   process_statuses, os_procs, l_data, u_pc, g_received,
                   g_run, g_drained, g_stale, g_holds,
                   g_last_op>>
    /\ UNCHANGED dvars
    /\ UNCHANGED <<g_locks, poisoned, panicked>>

\* ------------------------------------------------------------ lock failure
\* A thread panics while it holds one of the mutexes: every later lock() of
\* that mutex returns Err.
lock_poisoned(max_poisoned) ==
    /\ Cardinality(poisoned) < max_poisoned
    /\ \E lock \in Locks \ poisoned : poisoned' = poisoned \cup {lock}
    /\ UNCHANGED <<running, streams, channel, streaming_processes,
                   process_statuses, os_procs, l_pc, l_data, u_pc, g_received,
                   g_run, g_drained, g_stale, g_holds, g_last_op, g_locks,
                   panicked>>
    /\ UNCHANGED dvars

\* ------------------------------------------------- script output and JSON
\* A Rust String of script output is a sequence of tokens: whitespace, a run
\* of plain text that is no JSON object, or the text of one JSON object.
WS == [t |-> "ws"]
Text(s) == [t |-> "text", s |-> s]
Json(obj) == [t |-> "json", v |-> obj]

\* JSON values; a JSON object is a function from its field names.
JNull == [j |-> "null"]
JStr(s) == [j |-> "str", s |-> s]
JNum(n) == [j |-> "num", n |-> n]
JArr(a) == [j |-> "arr", a |-> a]

\* The String holding the characters of s.
string_of(s) == IF s = "" THEN <<>> ELSE <<Text(s)>>

RECURSIVE trim_start(_)
trim_start(line) ==
    IF line # <<>> /\ Head(line) = WS THEN trim_start(Tail(line)) ELSE line

RECURSIVE trim_end(_)
trim_end(line) ==
    IF line # <<>> /\ line[Len(line)] = WS
    THEN trim_end(SubSeq(line, 1, Len(line) - 1))
    ELSE line

\* str::trim
trim(line) == trim_end(trim_start(line))

TableOk ==
    [columns |-> JArr(<<JStr("a"), JStr("b")>>),
     data |-> JArr(<<JArr(<<JStr("1"), JNull>>)>>)]

TableBoom ==
    [columns |-> JArr(<<JStr("a"), JStr("b")>>),
     data |-> JArr(<<JArr(<<JStr("1"), JStr("2")>>)>>),
     error |-> JStr("boom")]

TableNullError ==
    [columns |-> JArr(<<JStr("c")>>),
     data |-> JArr(<<>>),
     error |-> JNull]

TableNoData == [columns |-> JArr(<<JStr("a")>>)]

TableNumberCell ==
    [columns |-> JArr(<<JStr("a")>>), data |-> JArr(<<JArr(<<JNum(1)>>)>>)]

\* The lines a worker may write to its stdout.
StdoutLines ==
    { <<>>,
      <<WS>>,
      <<WS, Text("42"), WS>>,
      <<Json(TableOk)>>,
      <<Json(TableBoom), WS>>,
      <<Json(TableNullError)>>,
      <<Json(TableNoData)>>,
      <<Json(TableNumberCell)>> }

\* Vec<String>
is_string_array(v) ==
    /\ v.j = "arr"
    /\ \A i \in DOMAIN v.a : v.a[i].j = "str"

\* Vec<Vec<Option<String>>>
is_option_string_grid(v) ==
    /\ v.j = "arr"
    /\ \A r \in DOMAIN v.a :
        /\ v.a[r].j = "arr"
        /\ \A c \in DOMAIN v.a[r].a : v.a[r].a[c].j \in {"str", "null"}

\* Whether serde_json::from_str::<TableData> returns Ok: one JSON object and
\* nothing else, columns and data present and well typed, error (if present)
\* a string or null.  Unknown fields are ignored.
TableData_parses(output) ==
    /\ Len(output) = 1
    /\ output[1].t = "json"
    /\ "columns" \in DOMAIN output[1].v
    /\ is_string_array(output[1].v.columns)
    /\ "data" \in DOMAIN output[1].v
    /\ is_option_string_grid(output[1].v.data)
    /\ "error" \in DOMAIN output[1].v => output[1].v.error.j \in {"str", "null"}

\* Mutant of unwrap_or_default: a null cell becomes the text "null".
unwrap_or_default_keeps_null(cell) == IF cell.j = "null" THEN "null" ELSE cell.s

\* cell.unwrap_or_default()
unwrap_or_default(cell) == IF cell.j = "null" THEN "" ELSE cell.s

\* deserialize_string_array
deserialize_string_array(v) ==
    [r \in DOMAIN v.a |->
        [c \in DOMAIN v.a[r].a |-> unwrap_or_default(v.a[r].a[c])]]

\* The TableData that from_str returns when it returns Ok.
TableData_from_str(output) ==
    [columns |-> [i \in DOMAIN output[1].v.columns.a |-> output[1].v.columns.a[i].s],
     data    |-> deserialize_string_array(output[1].v.data),
     error   |-> IF "error" \in DOMAIN output[1].v /\ output[1].v.error.j = "str"
                 THEN Some(output[1].v.error.s)
                 ELSE None]

\* ------------------------------------------------------ discrete executor
\* Names are sequences of characters.
Scripts ==
    { [name |-> <<"s">>, functions |-> <<>>],
      [name |-> <<"a">>, functions |-> << <<"b", "_", "c">> >>],
      [name |-> <<"a", "_", "b">>, functions |-> << <<"c">> >>] }

\* The function_name arguments the panels pass for a script: None for a
\* script without functions, else each declared function.
FunctionNames(script) ==
    IF script.functions = <<>> THEN {None}
    ELSE { Some(script.functions[i]) : i \in DOMAIN script.functions }

\* format!("{}_{}", script.name, func_name) or script.name.clone()
result_key(script, function_name) ==
    IF function_name # None
    THEN script.name \o <<"_">> \o function_name[1]
    ELSE script.name

\* The arguments appended after the script path.
command_args(script, function_name) ==
    IF function_name # None /\ script.functions # <<>>
    THEN <<"--function", function_name[1]>>
    ELSE <<>>

\* execute_script up to command.spawn(): a failed spawn returns None at once.
execute_script ==
    /\ MainIdle
    /\ \E script \in Scripts : \E function_name \in FunctionNames(script) :
        /\ d_script' = script
        /\ d_function' = function_name
        /\ d_args' = command_args(script, function_name)
    /\ d_stdin' = None
    /\ d_output' = <<>>
    /\ g_lines' = <<>>
    /\ g_pre_results' = script_results
    /\ g_pre_tables' = script_tables
    /\ \/ d_pc' = "stdin" /\ g_exit' = "none"
       \/ d_pc' = "idle" /\ g_exit' = "spawn_failed"
    /\ UNCHANGED <<script_results, script_tables>>
    /\ UNCHANGED <<svars, pvars, tvars>>

\* Mutant of spawn_and_run_script_stdin: the state is written to every
\* worker.
spawn_and_run_script_stdin_always_writes ==
    /\ d_pc = "stdin"
    /\ d_stdin' = Some("state")
    /\ d_pc' = "stderr"
    /\ UNCHANGED <<script_results, script_tables, d_script, d_function, d_args,
                   d_output, g_lines, g_exit, g_pre_results, g_pre_tables>>
    /\ UNCHANGED <<svars, pvars, tvars>>

\* Write the serialized state to stdin when the script declares functions.
spawn_and_run_script_stdin ==
    /\ d_pc = "stdin"
    /\ d_stdin' = IF d_script.functions # <<>> THEN Some("state") ELSE None
    /\ d_pc' = "stderr"
    /\ UNCHANGED <<script_results, script_tables, d_script, d_function, d_args,
                   d_output, g_lines, g_exit, g_pre_results, g_pre_tables>>
    /\ UNCHANGED <<svars, pvars, tvars>>

\* Read stderr to its end.
spawn_and_run_script_stderr ==
    /\ d_pc = "stderr"
    /\ d_pc' = "stdout"
    /\ UNCHANGED <<script_results, script_tables, d_script, d_function, d_args,
                   d_stdin, d_output, g_lines, g_exit, g_pre_results,
                   g_pre_tables>>
    /\ UNCHANGED <<svars, pvars, tvars>>

\* The body of the stdout loop for one line.
collect_line(output, line) == trim(line)

\* One turn of the stdout loop: the next line, or the end of the stream.
spawn_and_run_script_stdout(max_lines) ==
    /\ d_pc = "stdout"
    /\ \/ /\ Len(g_lines) < max_lines
          /\ \E line \in StdoutLines :
                /\ d_output' = collect_line(d_output, line)
                /\ g_lines' = Append(g_lines, line)
          /\ UNCHANGED d_pc
       \/ /\ d_pc' = "wait"
          /\ UNCHANGED <<d_output, g_lines>>
    /\ UNCHANGED <<script_results, script_tables, d_script, d_function, d_args,
                   d_stdin, g_exit, g_pre_results, g_pre_tables>>
    /\ UNCHANGED <<svars, pvars, tvars>>

\* Mutant of wait_yields_output: the exit status is not looked at.
wait_yields_output_ignores_status(wait_result) == wait_result # "wait_failed"

\* Mutant of wait_yields_output: the Err arm yields the output as well.
wait_yields_output_on_wait_error(wait_result) ==
    wait_result \in {"exit0", "wait_failed"}

\* The match on child.wait(): whether the run yields Some(output).
wait_yields_output(wait_result) == wait_result = "exit0"

\* Mutant of spawn_and_run_script_wait: try_wait in place of wait, the run
\* may return while the worker still runs.
spawn_and_run_script_wait_does_not_block ==
    /\ d_pc = "wait"
    /\ \/ \E wait_result \in {"exit0", "exit1", "signal", "wait_failed"} :
            /\ g_exit' = wait_result
            /\ d_pc' = IF wait_yields_output(wait_result) THEN "output" ELSE "idle"
       \/ /\ d_pc' = "idle"
          /\ UNCHANGED g_exit
    /\ UNCHANGED <<script_results, script_tables, d_script, d_function, d_args,
                   d_stdin, d_output, g_lines, g_pre_results, g_pre_tables>>
    /\ UNCHANGED <<svars, pvars, tvars>>

spawn_and_run_script_wait ==
    /\ d_pc = "wait"
    /\ \E wait_result \in {"exit0", "exit1", "signal", "wait_failed"} :
        /\ g_exit' = wait_result
        /\ d_pc' = IF wait_yields_output(wait_result) THEN "output" ELSE "idle"
    /\ UNCHANGED <<script_results, script_tables, d_script, d_function, d_args,
                   d_stdin, d_output, g_lines, g_pre_results, g_pre_tables>>
    /\ UNCHANGED <<svars, pvars, tvars>>

\* Mutant of results_after_output: an output that is no table payload is not
\* stored.
results_after_output_drops_fallback(results, key, output) ==
    IF TableData_parses(output)
    THEN IF TableData_from_str(output).error # None
         THEN insert(results, key, string_of(TableData_from_str(output).error[1]))
         ELSE results
    ELSE results

\* process_script_output: the effect on script_results ...
results_after_output(results, key, output) ==
    IF TableData_parses(output)
    THEN IF TableData_from_str(output).error # None
         THEN insert(results, key, string_of(TableData_from_str(output).error[1]))
         ELSE results
    ELSE insert(results, key, output)

\* ... and on script_tables; error.take() has left error None in the table.
tables_after_output(tables, key, output) ==
    IF TableData_parses(output) /\ TableData_from_str(output).error = None
    THEN insert(tables, key, TableData_from_str(output))
    ELSE tables

process_script_output ==
    /\ d_pc = "output"
    /\ script_results' =
         results_after_output(script_results, result_key(d_script, d_function),
                              d_output)
    /\ script_tables' =
         tables_after_output(script_tables, result_key(d_script, d_function),
                             d_output)
    /\ d_pc' = "idle"
    /\ UNCHANGED <<d_script, d_function, d_args, d_stdin, d_output, g_lines,
                   g_exit, g_pre_results, g_pre_tables>>
    /\ UNCHANGED <<svars, pvars, tvars>>

\* ------------------------------------------- spawn_and_run_script and pipes
\* The same function with the three OS pipes in view.  A worker's program is
\* a sequence of steps: write a chunk to stdout, write a chunk to stderr, or
\* read stdin to its end.  Every such worker terminates once its output is
\* consumed and its stdin is closed.
RECURSIVE SeqsUpTo(_, _)
SeqsUpTo(S, n) ==
    IF n = 0 THEN {<<>>}
    ELSE SeqsUpTo(S, n - 1) \cup
         { Append(q, x) : q \in { r \in SeqsUpTo(S, n - 1) : Len(r) = n - 1 },
                          x \in S }

WorkerPrograms == SeqsUpTo({"out", "err", "read_stdin"}, MaxChunks)

\* command.spawn() succeeded: the child runs with three empty pipes.
pipes_spawn ==
    /\ p_pc = "idle"
    /\ \E program \in WorkerPrograms, functions \in BOOLEAN :
        /\ w_todo' = program
        /\ p_functions' = functions
    /\ p_stdin_open' = TRUE
    /\ p_stdin' = 0
    /\ p_stderr' = 0
    /\ p_stdout' = 0
    /\ p_pc' = "stdin"
    /\ UNCHANGED <<svars, rvars, tvars>>

\* if !script.functions.is_empty(): take stdin, write the state, drop the
\* handle.  Otherwise the handle stays in the Child.
pipes_write_stdin ==
    /\ p_pc = "stdin"
    /\ IF p_functions
       THEN p_stdin' = 1 /\ p_stdin_open' = FALSE
       ELSE UNCHANGED <<p_stdin, p_stdin_open>>
    /\ p_pc' = "stderr"
    /\ UNCHANGED <<p_functions, p_stderr, p_stdout, w_todo>>
    /\ UNCHANGED <<svars, rvars, tvars>>

\* for line in BufReader::new(stderr).lines(): read what is buffered; the
\* loop ends at end-of-file, when the worker has exited.
pipes_drain_stderr ==
    /\ p_pc = "stderr"
    /\ \/ /\ p_stderr > 0
          /\ p_stderr' = p_stderr - 1
          /\ UNCHANGED p_pc
       \/ /\ p_stderr = 0
          /\ w_todo = <<>>
          /\ p_pc' = "stdout"
          /\ UNCHANGED p_stderr
    /\ UNCHANGED <<p_functions, p_stdin_open, p_stdin, p_stdout, w_todo>>
    /\ UNCHANGED <<svars, rvars, tvars>>

\* for line in BufReader::new(stdout).lines(), only after stderr's end.
pipes_collect_stdout ==
    /\ p_pc = "stdout"
    /\ \/ /\ p_stdout > 0
          /\ p_stdout' = p_stdout - 1
          /\ UNCHANGED p_pc
       \/ /\ p_stdout = 0
          /\ w_todo = <<>>
          /\ p_pc' = "wait"
          /\ UNCHANGED p_stdout
    /\ UNCHANGED <<p_functions, p_stdin_open, p_stdin, p_stderr, w_todo>>
    /\ UNCHANGED <<svars, rvars, tvars>>

\* child.wait(): closes the child's stdin if still held, then reaps it.
pipes_wait ==
    /\ p_pc = "wait"
    /\ w_todo = <<>>
    /\ p_stdin_open' = FALSE
    /\ p_pc' = "idle"
    /\ UNCHANGED <<p_functions, p_stdin, p_stderr, p_stdout, w_todo>>
    /\ UNCHANGED <<svars, rvars, tvars>>

\* One step of the worker: a write blocks while its pipe is full, the read
\* of stdin ends only when the pipe is empty and closed.
worker_step ==
    /\ p_pc # "idle"
    /\ w_todo # <<>>
    /\ \/ /\ Head(w_todo) = "out"
          /\ p_stdout < PipeCapacity
          /\ p_stdout' = p_stdout + 1
          /\ w_todo' = Tail(w_todo)
          /\ UNCHANGED <<p_stderr, p_stdin>>
       \/ /\ Head(w_todo) = "err"
          /\ p_stderr < PipeCapacity
          /\ p_stderr' = p_stderr + 1
          /\ w_todo' = Tail(w_todo)
          /\ UNCHANGED <<p_stdout, p_stdin>>
       \/ /\ Head(w_todo) = "read_stdin"
          /\ p_stdin > 0
          /\ p_stdin' = 0
          /\ UNCHANGED <<p_stdout, p_stderr, w_todo>>
       \/ /\ Head(w_todo) = "read_stdin"
          /\ p_stdin = 0
          /\ ~p_stdin_open
          /\ w_todo' = Tail(w_todo)
          /\ UNCHANGED <<p_stdout, p_stderr, p_stdin>>
    /\ UNCHANGED <<p_pc, p_functions, p_stdin_open>>
    /\ UNCHANGED <<svars, rvars, tvars>>

\* ------------------------------------------------- lock order of operations
\* The locks an operation holds together, in the order it takes them: the
\* second is taken while the first is held, and both guards are dropped when
\* the operation's block ends.
stop_streaming_locks == <<"streaming_processes", "process_statuses">>

add_streaming_process_locks == <<"streaming_processes", "process_statuses">>

\* Mutant of check_process_status_locks: the tuple's elements are swapped.
check_process_status_locks_reversed ==
    <<"process_statuses", "streaming_processes">>

\* The tuple of the two lock() calls is evaluated left to right.
check_process_status_locks == <<"streaming_processes", "process_statuses">>

\* The scripts panel reads the statuses under their lock alone.
show_streaming_scripts_locks == <<"process_statuses">>

Operations ==
    {"stop_streaming", "add_streaming_process", "check_process_status",
     "show_streaming_scripts"}

locks_of(op) ==
    CASE op = "stop_streaming" -> stop_streaming_locks
      [] op = "add_streaming_process" -> add_streaming_process_locks
      [] op = "check_process_status" -> check_process_status_locks
      [] op = "show_streaming_scripts" -> show_streaming_scripts_locks

\* Mutex::lock blocks while another thread holds the mutex.
lock_is_free(lock) ==
    \A t \in DOMAIN t_held : \A i \in DOMAIN t_held[t] : t_held[t][i] # lock

\* A thread enters one of the operations.
thread_calls(t) ==
    /\ t_op[t] = "none"
    /\ \E op \in Operations : t_op' = [t_op EXCEPT ![t] = op]
    /\ UNCHANGED t_held
    /\ UNCHANGED <<svars, rvars, pvars>>

\* The thread takes the next lock of its operation once that lock is free.
thread_locks(t) ==
    /\ t_op[t] # "none"
    /\ Len(t_held[t]) < Len(locks_of(t_op[t]))
    /\ lock_is_free(locks_of(t_op[t])[Len(t_held[t]) + 1])
    /\ t_held' = [t_held EXCEPT
                     ![t] = Append(@, locks_of(t_op[t])[Len(t_held[t]) + 1])]
    /\ UNCHANGED t_op
    /\ UNCHANGED <<svars, rvars, pvars>>

\* With all its locks held the operation does its work; the guards are
\* dropped and the operation returns.
thread_returns(t) ==
    /\ t_op[t] # "none"
    /\ Len(t_held[t]) = Len(locks_of(t_op[t]))
    /\ t_held' = [t_held EXCEPT ![t] = <<>>]
    /\ t_op' = [t_op EXCEPT ![t] = "none"]
    /\ UNCHANGED <<svars, rvars, pvars>>

\* ------------------------------------------------------------- scripts panel
\* The script_type of each entry of config.scripts, in configured order.
Configs ==
    { <<"streaming">>,
      <<"streaming", "streaming">>,
      <<"discrete", "streaming">>,
      <<"streaming", "discrete", "streaming">> }

\* handle_execute_all walks config.scripts in order and registers one process
\* per streaming script: the script at position i gets the process at this
\* position of streaming_processes.
process_index_of_script(config, i) ==
    Cardinality({ j \in 1..i : config[j] = "streaming" })

\* show_streaming_scripts: statuses.get(i) for the script at position i of
\* config.scripts, Finished when the list is shorter.
show_streaming_scripts_status(statuses, i) ==
    IF i \in DOMAIN statuses THEN statuses[i] ELSE Finished

\* ------------------------------------------------------------ specifications
\* The discrete script executor and the Result Store.
NextDiscrete ==
    \/ execute_script
    \/ spawn_and_run_script_stdin
    \/ spawn_and_run_script_stderr
    \/ spawn_and_run_script_stdout(MaxLines)
    \/ spawn_and_run_script_wait
    \/ process_script_output

SpecDiscrete == Init /\ [][NextDiscrete]_vars

\* One discrete worker and the executor, joined by the three pipes.
NextPipes ==
    \/ pipes_spawn
    \/ pipes_write_stdin
    \/ pipes_drain_stderr
    \/ pipes_collect_stdout
    \/ pipes_wait
    \/ worker_step

SpecPipes == Init /\ [][NextPipes]_vars

\* The streaming data path: lifecycle, listener, channel and buffers.
NextData ==
    \/ start_streaming
    \/ stop_streaming
    \/ update_streams_enter
    \/ update_streams_loop
    \/ listener_connect
    \/ listener_check
    \/ listener_recv(MaxMsgs)
    \/ listener_send
    \/ listener_wake

SpecData == Init /\ [][NextData]_vars

\* The supervised streaming workers: lifecycle, registration and polling.
NextProc ==
    \/ start_streaming
    \/ stop_streaming
    \/ add_streaming_process(MaxProcs)
    \/ process_exits
    \/ check_process_status

SpecProc == Init /\ [][NextProc]_vars

\* The streaming engine with failing lock acquisitions.
NextLocks ==
    \/ start_streaming
    \/ stop_streaming
    \/ add_streaming_process(SmallProcs)
    \/ check_process_status
    \/ update_streams_enter
    \/ update_streams_loop
    \/ listener_connect
    \/ listener_check
    \/ listener_recv(OneMsg)
    \/ listener_send
    \/ listener_wake
    \/ lock_poisoned(MaxPoisoned)

SpecLocks == Init /\ [][NextLocks]_vars

\* Threads that run the lock-taking operations side by side.
NextOrder ==
    \E t \in 1..MaxThreads :
        \/ thread_calls(t)
        \/ thread_locks(t)
        \/ thread_returns(t)

SpecOrder == Init /\ [][NextOrder]_vars

\* The whole streaming engine, under the small limits.
Next ==
    \/ start_streaming
    \/ stop_streaming
    \/ add_streaming_process(SmallProcs)
    \/ process_exits
    \/ check_process_status
    \/ update_streams_enter
    \/ update_streams_loop
    \/ listener_connect
    \/ listener_check
    \/ listener_recv(SmallMsgs)
    \/ listener_send
    \/ listener_wake

Spec == Init /\ [][Next]_vars

\* ------------------------------------------------------------------ claims
Min(a, b) == IF a < b THEN a ELSE b

LastN(s, n) == SubSeq(s, Len(s) - n + 1, Len(s))

Capacity(stream_id) ==
    IF stream_id = "single_scalar_channel"
    THEN MAX_CHANNEL_STREAM_POINTS
    ELSE MAX_FLIGHT_STREAM_POINTS

PointOf(data) ==
    IF data.stream_id = "single_scalar_channel" THEN Plot2D(data)
    ELSE FlightData(data)

BufferOf(stream_id) == entry_or_default(streams, stream_id)

AllBuffersEmpty == \A k \in StreamIds : BufferOf(k) = <<>>

\* C1: every stream buffer observable between two holds of the streams lock
\* has length at most the capacity of its bucket.
C1_BufferWithinCapacity ==
    /\ DOMAIN streams \subseteq StreamIds
    /\ \A k \in DOMAIN streams : Len(streams[k]) <= Capacity(k)

\* A scalar buffer is full after more messages than its capacity were drained.
C1_Witness ==
    /\ Len(BufferOf("single_scalar_channel")) = MAX_CHANNEL_STREAM_POINTS
    /\ Len(g_drained["single_scalar_channel"]) > MAX_CHANNEL_STREAM_POINTS

\* C2: within one run, after n messages of a recognized stream were drained,
\* the buffer holds the records of the last min(n, capacity) of them, oldest
\* first, and the drained messages are in arrival (receive) order.
C2_BufferIsLastArrivals ==
    \A k \in StreamIds :
        /\ BufferOf(k) =
             [i \in 1..Min(Len(g_drained[k]), Capacity(k)) |->
                PointOf(LastN(g_drained[k], Min(Len(g_drained[k]), Capacity(k)))[i])]
        /\ \A i, j \in DOMAIN g_drained[k] :
             i < j => g_drained[k][i].timestamp < g_drained[k][j].timestamp

\* Two evictions have happened on the scalar buffer.
C2_Witness ==
    /\ Len(g_drained["single_scalar_channel"]) >= MAX_CHANNEL_STREAM_POINTS + 2
    /\ Len(BufferOf("single_scalar_channel")) = MAX_CHANNEL_STREAM_POINTS

\* C3: stop() followed immediately by start() leaves every stream buffer
\* empty and the process-status list empty.
C3_StopStartResets ==
    g_last_op = "stop_start" => (AllBuffersEmpty /\ process_statuses = <<>>)

\* C4: a message that was queued in the hand-off channel when stop() ran is
\* never appended to a stream buffer afterwards.
C4_NoStaleMessageBuffered ==
    \A k \in StreamIds : \A i \in DOMAIN g_drained[k] :
        g_drained[k][i].timestamp \notin g_stale

\* C5: start() leaves the process list empty, the status list cleared, every
\* stream buffer empty and the running flag true.
C5_StartResets ==
    g_last_op \in {"start", "stop_start"} =>
        /\ streaming_processes = <<>>
        /\ process_statuses = <<>>
        /\ AllBuffersEmpty
        /\ running

\* C6: stop() leaves the running flag false (is_running() returns false), no
\* spawned worker alive, every status entry Stopped and every buffer empty.
C6_StopHalts ==
    g_last_op = "stop" =>
        /\ ~running
        /\ ~is_running
        /\ streaming_processes = <<>>
        /\ \A pid \in DOMAIN os_procs : os_procs[pid] # "alive"
        /\ \A i \in DOMAIN process_statuses : process_statuses[i] = Stopped
        /\ AllBuffersEmpty

\* stop() has killed a registered worker, in a run in which the socket had
\* delivered messages.
C6_Witness ==
    /\ g_last_op = "stop"
    /\ \E pid \in DOMAIN os_procs : os_procs[pid] = "killed"
    /\ process_statuses # <<>>
    /\ g_received > 0

\* The latest discrete run has returned (a failed spawn included).
RunDone == d_pc = "idle" /\ g_exit # "none"

\* The result key of the current or latest run.
RunKey == result_key(d_script, d_function)

\* The worker's stdout has been read, in part or to its end.
StdoutRead ==
    \/ d_pc \in {"stdout", "wait", "output"}
    \/ d_pc = "idle" /\ g_exit \notin {"none", "spawn_failed"}

RECURSIVE LastNonEmptyLine(_)
LastNonEmptyLine(lines) ==
    IF lines = <<>> THEN <<>>
    ELSE IF trim(lines[Len(lines)]) # <<>> THEN trim(lines[Len(lines)])
    ELSE LastNonEmptyLine(SubSeq(lines, 1, Len(lines) - 1))

\* C7: a run whose worker exits with a non-zero or abnormal status leaves
\* the scalar and the table of every key as they were when the run began.
C7_FailedRunKeepsStore ==
    g_exit \in {"exit1", "signal"} =>
        /\ script_results = g_pre_results
        /\ script_tables = g_pre_tables

\* A worker wrote a result line and then failed, while a scalar and a table
\* of earlier runs were stored under its key.
C7_Witness ==
    /\ RunDone
    /\ g_exit = "exit1"
    /\ d_output # <<>>
    /\ RunKey \in DOMAIN script_results
    /\ RunKey \in DOMAIN script_tables

\* C8: after a successful run whose result line parses as a table payload
\* with a non-null error, the store holds that error as the scalar of the
\* run's key and holds no table under that key.
C8_ErrorPayloadStoresScalarOnly ==
    (/\ RunDone
     /\ g_exit = "exit0"
     /\ TableData_parses(d_output)
     /\ "error" \in DOMAIN d_output[1].v
     /\ d_output[1].v.error # JNull)
    => /\ RunKey \in DOMAIN script_results
       /\ script_results[RunKey] = string_of(d_output[1].v.error.s)
       /\ RunKey \notin DOMAIN script_tables

\* C9: after a successful run whose result line parses as a table payload
\* without error, the store holds under the run's key a table with the
\* payload's columns and rows, null cells replaced by the empty string.
C9_TablePayloadStored ==
    (/\ RunDone
     /\ g_exit = "exit0"
     /\ TableData_parses(d_output)
     /\ ("error" \in DOMAIN d_output[1].v => d_output[1].v.error = JNull))
    => /\ RunKey \in DOMAIN script_tables
       /\ script_tables[RunKey].columns =
            [i \in DOMAIN d_output[1].v.columns.a |-> d_output[1].v.columns.a[i].s]
       /\ DOMAIN script_tables[RunKey].data = DOMAIN d_output[1].v.data.a
       /\ \A r \in DOMAIN d_output[1].v.data.a :
            /\ DOMAIN script_tables[RunKey].data[r] = DOMAIN d_output[1].v.data.a[r].a
            /\ \A c \in DOMAIN d_output[1].v.data.a[r].a :
                 script_tables[RunKey].data[r][c] =
                    IF d_output[1].v.data.a[r].a[c] = JNull THEN ""
                    ELSE d_output[1].v.data.a[r].a[c].s

\* A table with a null cell has been stored by a successful run.
C9_Witness ==
    /\ RunDone
    /\ g_exit = "exit0"
    /\ d_output = <<Json(TableOk)>>
    /\ RunKey \in DOMAIN script_tables
    /\ script_tables[RunKey].data = << <<"1", "">> >>

\* C10: the candidate result retained while and after stdout is read is the
\* last non-empty line read so far; empty and whitespace-only lines never
\* replace it.
C10_LastNonEmptyLineRetained ==
    StdoutRead => d_output = LastNonEmptyLine(g_lines)

\* Neither end of the string is whitespace.
IsTrimmed(str) ==
    str = <<>> \/ (str[1] # WS /\ str[Len(str)] # WS)

\* C11: after a successful run whose retained result line is no table
\* payload, the scalar of the run's key is that line, unaltered and without
\* surrounding whitespace.
C11_UnparsedLineStoredVerbatim ==
    (/\ RunDone
     /\ g_exit = "exit0"
     /\ d_output # <<>>
     /\ ~TableData_parses(d_output))
    => /\ RunKey \in DOMAIN script_results
       /\ script_results[RunKey] = d_output
       /\ IsTrimmed(script_results[RunKey])

\* A line that is JSON but lacks a required table field has been stored as
\* the scalar of the run's key, and a plain text line written with
\* surrounding whitespace is the scalar of another key.
C11_Witness ==
    /\ RunDone
    /\ g_exit = "exit0"
    /\ d_output = <<Json(TableNoData)>>
    /\ RunKey \in DOMAIN script_results
    /\ script_results[RunKey] = <<Json(TableNoData)>>
    /\ \E k \in DOMAIN script_results \ {RunKey} :
         script_results[k] = <<Text("42")>>

\* The latest run's output is stored as a scalar (else as a table).
RunWritesScalar ==
    \/ ~TableData_parses(d_output)
    \/ TableData_from_str(d_output).error # None

\* C12: the key of a run is the script name, or name, "_" and function name;
\* after a successful run that produced output the key holds that run's
\* value and nothing an earlier run stored under it, and the scalar and the
\* table of every other key are as they were when the run began.
C12_RunReplacesOwnKeyOnly ==
    (/\ RunDone
     /\ g_exit = "exit0"
     /\ d_output # <<>>)
    => /\ RunKey = IF d_function = None THEN d_script.name
                   ELSE d_script.name \o <<"_">> \o d_function[1]
       /\ (RunKey \in DOMAIN script_results) <=> RunWritesScalar
       /\ (RunKey \in DOMAIN script_tables) <=> ~RunWritesScalar
       /\ \A k \in (DOMAIN script_results \cup DOMAIN g_pre_results) \ {RunKey} :
            /\ k \in DOMAIN script_results
            /\ k \in DOMAIN g_pre_results
            /\ script_results[k] = g_pre_results[k]
       /\ \A k \in (DOMAIN script_tables \cup DOMAIN g_pre_tables) \ {RunKey} :
            /\ k \in DOMAIN script_tables
            /\ k \in DOMAIN g_pre_tables
            /\ script_tables[k] = g_pre_tables[k]

\* A step of check_process_status that is no stuttering step.
PollStep ==
    /\ g_last_op' = "check_process_status"
    /\ g_last_op # "check_process_status" \/ process_statuses' # process_statuses

\* The status the claim gives for a process whose wait call succeeds.
StatusOfOsState(os_state) ==
    CASE os_state = "alive" -> Running
      [] os_state = "exit0" -> Finished
      [] os_state = "exit1" -> Failed(Some(1))
      [] OTHER -> Failed(None)

C14_StatusListAligned ==
    running => Len(process_statuses) = Len(streaming_processes)

\* Every streaming script of config has its process registered in this run,
\* and the status list holds exactly the statuses of this run's processes.
ConfigLaunched(config) ==
    /\ running
    /\ MainIdle
    /\ Len(streaming_processes) = process_index_of_script(config, Len(config))
    /\ Len(process_statuses) = Len(streaming_processes)

\* C15: for every configuration, the status shown at the position of a
\* streaming script is the status of the process spawned for that script.
C15_ShownStatusIsOfOwnProcess ==
    \A config \in Configs :
        ConfigLaunched(config) =>
            \A i \in DOMAIN config :
                config[i] = "streaming" =>
                    show_streaming_scripts_status(process_statuses, i) =
                        process_statuses[process_index_of_script(config, i)]

\* A step in which update_streams returns after its loop ...
DrainLoopReturns == u_pc = "loop" /\ u_pc' = "idle"

\* ... and one in which it returns at once because the flag is false.
DrainGateReturns ==
    /\ u_pc = "idle"
    /\ u_pc' = "idle"
    /\ g_last_op # "update_streams"
    /\ g_last_op' = "update_streams"

\* C16 as stated: whenever update_streams returns, the channel is empty.
C16_DrainEmptiesChannel ==
    [][DrainLoopReturns \/ DrainGateReturns => channel' = <<>>]_vars

\* C16, amended: a call entered while the flag is true returns only with the
\* channel empty; a call entered while the flag is false returns at once and
\* leaves the channel as it is.
C16_RunningDrainEmptiesChannel ==
    [][/\ DrainLoopReturns => channel' = <<>>
       /\ DrainGateReturns => ~running /\ channel' = channel]_vars

\* A call entered while the flag was true has returned: both messages sent so
\* far have been drained and the channel is empty.
C16_Witness ==
    /\ u_pc = "idle"
    /\ g_last_op = "update_streams"
    /\ running
    /\ channel = <<>>
    /\ g_received = 2
    /\ l_pc = "sleep"
    /\ g_run = 1
    /\ Len(g_drained["single_scalar_channel"]) = 2

\* C17: one call of update_streams holds the streams lock at most once, so
\* the lock is never free while a part of the call's messages is applied.
C17_SingleLockHoldPerDrain == g_holds <= 1

\* A message whose stream_id is not recognized is taken off the channel.
DrainsUnrecognized ==
    /\ u_pc = "loop"
    /\ channel # <<>>
    /\ channel' = Tail(channel)
    /\ Head(channel).stream_id \notin StreamIds

\* C18: draining a message with an unrecognized stream_id leaves the buffers
\* and their keys as they are, and the keys are always recognized ids.
C18_UnrecognizedDropped ==
    [][/\ DOMAIN streams' \subseteq StreamIds
       /\ DrainsUnrecognized => streams' = streams]_vars

\* The drain in progress has taken two messages, the first recognized and
\* the second not: one bucket with one record exists.
C18_Witness ==
    /\ u_pc = "loop"
    /\ g_holds = 2
    /\ g_run = 1
    /\ Len(g_drained["single_scalar_channel"]) = 1
    /\ g_drained["single_scalar_channel"][1].timestamp = 1
    /\ g_drained["flight_position"] = <<>>
    /\ DOMAIN streams = {"single_scalar_channel"}
    /\ Len(streams["single_scalar_channel"]) = 1

\* The value of a numeric field of a wire message, 0 for an absent one.
WireField(obj, field) == IF field \in DOMAIN obj THEN obj[field] ELSE 0

\* The record the claim gives for a wire message of a recognized stream.
RecordOfWire(obj) ==
    IF obj.stream_id = "single_scalar_channel"
    THEN <<obj.timestamp, WireField(obj, "value")>>
    ELSE <<WireField(obj, "rel_lat"), WireField(obj, "rel_lon"),
           WireField(obj, "altitude"), WireField(obj, "pitch"),
           WireField(obj, "roll"), WireField(obj, "yaw")>>

\* C19: the newest record of a buffer is the record of the wire message
\* drained last for that stream: timestamp and value for the scalar channel;
\* the six flight fields, each absent one as 0, for flight_position.
C19_RecordOfMessageAppended ==
    \A k \in StreamIds :
        g_drained[k] # <<>> =>
            /\ k \in DOMAIN streams
            /\ streams[k] # <<>>
            /\ \E obj \in WireMessages(g_drained[k][Len(g_drained[k])].timestamp) :
                /\ "stream_id" \in DOMAIN obj
                /\ obj.stream_id = k
                /\ streams[k][Len(streams[k])].coords = RecordOfWire(obj)

\* A flight message without pitch, roll and yaw and a scalar message have
\* been drained.
C19_Witness ==
    /\ \A k \in StreamIds : k \in DOMAIN streams
    /\ streams["flight_position"][Len(streams["flight_position"])].coords =
         <<16, 26, 36, 0, 0, 0>>
    /\ streams["single_scalar_channel"][1].coords = <<2, 12>>

\* A step in which the listener attempts a receive or pushes a message.
ListenerReceivesOrPushes == l_pc \in {"recv", "send"} /\ l_pc' # l_pc

\* C20 as stated: the listener attempts a receive or pushes a message only
\* while the flag is true.
C20_NoReceiveWhileFlagFalse ==
    [][ListenerReceivesOrPushes => running]_vars

\* C20, amended: the listener attempts a receive only after reading the flag
\* as true in the same iteration and pushes only what that attempt received;
\* an iteration that reads the flag as false only sleeps and re-checks; the
\* connected thread never exits or reconnects.
C20_ReceiveOnlyAfterFlagReadTrue ==
    [][/\ l_pc' = "recv" /\ l_pc # "recv" => l_pc = "check" /\ running
       /\ l_pc' = "send" /\ l_pc # "send" => l_pc = "recv"
       /\ Len(channel') > Len(channel) => l_pc = "send"
       /\ g_received' # g_received => l_pc = "recv"
       /\ l_pc = "check" /\ ~running /\ l_pc' # l_pc => l_pc' = "sleep"
       /\ l_pc = "sleep" /\ l_pc' # l_pc => l_pc' = "check"
       /\ l_pc \notin {"connect", "exited"}
            => l_pc' \notin {"connect", "exited"}]_vars

\* In the second run the listener thread of the first run holds a message it
\* has received after stop_streaming left an earlier one queued.
C20_Witness ==
    /\ g_run = 2
    /\ running
    /\ l_pc = "send"
    /\ g_received = 2
    /\ g_stale = {1}

\* C21: a parsed message is held by the listener until it is appended to the
\* tail of the channel; the channel loses messages only at its head, to the
\* consumer, and never exceeds its capacity; while the channel is full the
\* listener stays in the push with its message and receives nothing.
C21_ParsedMessagesPushedInOrder ==
    [][/\ l_pc = "recv" /\ l_pc' = "send"
            => /\ l_data' # None
               /\ l_data'[1].timestamp = g_received'
               /\ g_received' = g_received + 1
       /\ l_pc = "send" /\ l_pc' # "send"
            => /\ Len(channel) < ChannelCapacity
               /\ channel' = Append(channel, l_data[1])
       /\ l_pc = "send" /\ l_pc' = "send"
            => l_data' = l_data /\ g_received' = g_received
       /\ channel' # channel
            => \/ l_pc = "send" /\ channel' = Append(channel, l_data[1])
               \/ channel # <<>> /\ channel' = Tail(channel)
       /\ Len(channel') <= ChannelCapacity]_vars

\* The channel is full, in receive order, and the listener is blocked in
\* the push of the next message.
C21_Witness ==
    /\ l_pc = "send"
    /\ Len(channel) = ChannelCapacity
    /\ \A i \in DOMAIN channel : channel[i].timestamp = i
    /\ l_data[1].timestamp = ChannelCapacity + 1

\* The message is the parse of a wire message that has both required fields.
FromWellFormedWire(data) ==
    \E obj \in WireMessages(data.timestamp) :
        /\ {"stream_id", "timestamp"} \subseteq DOMAIN obj
        /\ obj.stream_id = data.stream_id

\* A step in which the listener receives a message and does not keep it.
ListenerDiscards == g_received' # g_received /\ l_pc' # "send"

\* C22: a received message that fails to parse is not held for the push and
\* changes neither the channel nor a buffer; the listener goes on to its
\* sleep and the next iteration; whatever is held or queued is the parse of
\* a well-formed message.
C22_MalformedMessageDiscarded ==
    [][/\ ListenerDiscards
            => /\ l_pc = "recv"
               /\ l_pc' = "sleep"
               /\ l_data' = None
               /\ channel' = channel
               /\ streams' = streams
       /\ l_data' # None => FromWellFormedWire(l_data'[1])
       /\ \A i \in DOMAIN channel' : FromWellFormedWire(channel'[i])]_vars

\* The first message was discarded and the second has been received and
\* pushed; nothing has been drained.
C22_Witness ==
    /\ g_run = 1
    /\ g_last_op = "start"
    /\ g_received = 2
    /\ Len(channel) = 1
    /\ channel[1].timestamp = 2
    /\ l_data = None
    /\ streams = EmptyMap

\* The main thread is in none of its operations.
MainThreadFree == u_pc = "idle" /\ d_pc = "idle"

\* C23: once the listener thread has ended at startup it stays ended, no
\* message is ever received, queued or buffered, and start, stop, register,
\* drain and poll can still be called whenever their own conditions hold.
C23_ListenerFailureIsLocal ==
    [][l_pc = "exited" =>
        /\ l_pc' = "exited"
        /\ g_received' = 0
        /\ l_data' = None
        /\ channel' = <<>>
        /\ streams' = EmptyMap
        /\ MainThreadFree =>
            /\ ENABLED stop_streaming
            /\ ENABLED update_streams_enter
            /\ g_run < MaxRuns => ENABLED start_streaming
            /\ running /\ Len(os_procs) < SmallProcs
                 => ENABLED add_streaming_process(SmallProcs)
            /\ streaming_processes # <<>> => ENABLED check_process_status]_vars

\* With the listener thread ended, a second run is on and its process has
\* been registered and polled.
C23_Witness ==
    /\ l_pc = "exited"
    /\ g_run = 2
    /\ running
    /\ g_last_op = "check_process_status"
    /\ streaming_processes # <<>>
    /\ process_statuses[Len(process_statuses)] = Running

\* C24: the running flag changes only in a step of start_streaming or of
\* stop_streaming.
C24_FlagChangedByLifecycleOnly ==
    [][running' # running => start_streaming \/ stop_streaming]_vars

\* The flag set by the one start_streaming so far is still set after the
\* listener has received, a drain has buffered a record, and a process has
\* been registered, has exited and has been polled.
C24_Witness ==
    /\ running
    /\ g_run = 1
    /\ g_received >= 1
    /\ streams # EmptyMap
    /\ g_last_op = "check_process_status"
    /\ process_statuses # <<>>
    /\ process_statuses[1] = Finished

\* C25: while a run is in progress the executor or the worker can always take
\* a step, so every run reaches its end whatever the worker writes.
C25_RunNeverStuck ==
    p_pc # "idle" =>
        \/ ENABLED pipes_write_stdin
        \/ ENABLED pipes_drain_stderr
        \/ ENABLED pipes_collect_stdout
        \/ ENABLED pipes_wait
        \/ ENABLED worker_step

\* C26: no engine operation ever ends in a panic, whichever locks fail.
C26_LockFailureNeverPanics == ~panicked

\* C27: no operation of the main thread holds more than one of the engine's
\* locks at the same time.
C27_OneLockAtATime == g_locks <= 1

\* C28: a run whose worker could not be spawned or whose wait call failed has
\* returned and has left the scalar and the table of every key as they were
\* when the run began.
C28_SpawnOrWaitFailureKeepsStore ==
    g_exit \in {"spawn_failed", "wait_failed"} =>
        /\ d_pc = "idle"
        /\ script_results = g_pre_results
        /\ script_tables = g_pre_tables

\* The wait call failed after the worker wrote a result line that differs
\* from the scalar an earlier run stored under the key.
C28_Witness ==
    /\ g_exit = "wait_failed"
    /\ d_output # <<>>
    /\ RunKey \in DOMAIN script_results
    /\ script_results[RunKey] # d_output

\* The worker has been spawned and the stdin step is behind.
StdinHandled ==
    \/ d_pc \in {"stderr", "stdout", "wait", "output"}
    \/ d_pc = "idle" /\ g_exit \notin {"none", "spawn_failed"}

\* C29: the command carries "--function" and the function name exactly when
\* a function name is given and the script declares a function; the worker's
\* stdin has received the state exactly when the script declares a function.
C29_FlagAndStdinOnlyWithFunctions ==
    /\ d_pc # "idle" \/ g_exit # "none" =>
          d_args = IF d_function # None /\ d_script.functions # <<>>
                   THEN <<"--function", d_function[1]>>
                   ELSE <<>>
    /\ StdinHandled =>
          (d_stdin # None <=> d_script.functions # <<>>)

\* A worker was started for function c of script a_b: it got the flag and
\* the state; an earlier run of a script without functions stored a result.
C29_Witness ==
    /\ d_pc = "wait"
    /\ d_script.functions # <<>>
    /\ d_args = <<"--function", <<"c">>>>
    /\ d_stdin = Some("state")
    /\ <<"s">> \in DOMAIN script_results

\* A step of check_process_status upon statuses that earlier steps of this
\* run wrote for the processes now tracked.
PollOfOwnStatuses ==
    /\ PollStep
    /\ \/ Len(process_statuses) = Len(streaming_processes)
       \/ g_last_op = "check_process_status"

\* C30: a poll never turns the Finished or Failed it recorded for a process
\* into Running and never changes the number of entries or an entry beyond
\* the tracked processes; an entry becomes Stopped only in stop_streaming.
C30_TerminalStatusStays ==
    [][/\ PollOfOwnStatuses =>
            \A i \in DOMAIN streaming_processes :
                process_statuses[i].tag \in {"Finished", "Failed"}
                    => process_statuses'[i].tag # "Running"
       /\ PollStep =>
            /\ Len(process_statuses') = Len(process_statuses)
            /\ \A i \in DOMAIN process_statuses \ DOMAIN streaming_processes :
                 process_statuses'[i] = process_statuses[i]
       /\ \A i \in DOMAIN process_statuses :
            (/\ i \in DOMAIN process_statuses'
             /\ process_statuses'[i] = Stopped
             /\ process_statuses[i] # Stopped) => stop_streaming]_vars

\* Polls have recorded Failed without code for the first process, ended by a
\* signal, and Running for the second.
C30_Witness ==
    /\ g_last_op = "check_process_status"
    /\ Len(streaming_processes) = 2
    /\ os_procs[streaming_processes[1]] = "signal"
    /\ process_statuses = <<Failed(None), Running>>

\* The order in which execute_script passes through its positions.
RunPositions ==
    { <<"idle", "stdin">>, <<"stdin", "stderr">>, <<"stderr", "stdout">>,
      <<"stdout", "wait">>, <<"wait", "output">>, <<"wait", "idle">>,
      <<"output", "idle">> }

\* How child.wait() may end.
WaitResults == {"exit0", "exit1", "signal", "wait_failed"}

\* C31: a run takes its steps in one order: stderr is read to its end, then
\* stdout to its end, then the worker's exit is waited for; the run returns
\* only from the wait or from the store step behind it, with the wait's
\* result recorded; the store is written only in that store step, which is
\* reached only with a successful exit status.
C31_RunIsSynchronous ==
    [][/\ d_pc' # d_pc => <<d_pc, d_pc'>> \in RunPositions
       /\ d_pc # "idle" /\ d_pc' = "idle" => g_exit' \in WaitResults
       /\ d_pc' = "output" => g_exit' = "exit0"
       /\ <<script_results, script_tables>>' # <<script_results, script_tables>>
            => /\ d_pc = "output"
               /\ g_exit = "exit0"
               /\ d_pc' = "idle"]_vars

\* C31, with the worker and its pipes in view: the run returns only from
\* child.wait(), when the worker has taken its last step and both output
\* pipes are empty and at their end.
C31_ReturnsAfterWorkerExit ==
    [][p_pc # "idle" /\ p_pc' = "idle"
          => /\ p_pc = "wait"
             /\ w_todo = <<>>
             /\ p_stdout = 0
             /\ p_stderr = 0]_vars

\* A run has returned after its worker wrote as many lines as it may and
\* exited successfully, and the store differs from what it was at the start.
C31_Witness ==
    /\ RunDone
    /\ g_exit = "exit0"
    /\ Len(g_lines) = MaxLines
    /\ <<script_results, script_tables>> # <<g_pre_results, g_pre_tables>>

\* C32: no key holds a scalar and a table at the same time; after a
\* successful run that produced output, its key holds the shape of that
\* run's result and not the other shape.
C32_KeyHoldsOneShape ==
    /\ DOMAIN script_results \cap DOMAIN script_tables = {}
    /\ (RunDone /\ g_exit = "exit0" /\ d_output # <<>>) =>
          IF RunWritesScalar
          THEN RunKey \in DOMAIN script_results \ DOMAIN script_tables
          ELSE RunKey \in DOMAIN script_tables \ DOMAIN script_results

\* C33: a successful run whose worker wrote no line, or only empty and
\* whitespace-only lines, leaves the scalar and the table of every key as
\* they were when the run began.
C33_NoResultLineKeepsStore ==
    (/\ RunDone
     /\ g_exit = "exit0"
     /\ \A i \in DOMAIN g_lines : trim(g_lines[i]) = <<>>)
    => /\ script_results = g_pre_results
       /\ script_tables = g_pre_tables

\* C34: while the flag is false (before the first start_streaming and from a
\* stop_streaming to the next start_streaming) every stream buffer is empty
\* and no drain is in its loop, whatever the listener has received, holds or
\* has pushed meanwhile.
C34_StoppedBuffersStayEmpty ==
    ~running => AllBuffersEmpty /\ u_pc = "idle"

\* The engine is stopped after a run; update_streams has been called since
\* and has returned; a message of a recognized stream that the listener
\* pushed after stop_streaming is still queued.
C34_Witness ==
    /\ ~running
    /\ g_run >= 1
    /\ g_last_op = "update_streams"
    /\ u_pc = "idle"
    /\ \E i \in DOMAIN channel :
         /\ channel[i].timestamp \notin g_stale
         /\ channel[i].stream_id \in StreamIds

\* The queued messages that were pushed after the latest stop_streaming.
PushedSinceStop ==
    { i \in DOMAIN channel : channel[i].timestamp \notin g_stale }

\* C35: while the flag is false at most one message has been pushed onto the
\* channel since stop_streaming cleared the flag (none before the first
\* start_streaming), and it is the newest message received.
C35_AtMostOnePushAfterStop ==
    ~running =>
        /\ Cardinality(PushedSinceStop) <= 1
        /\ \A i \in PushedSinceStop :
             i = Len(channel) /\ channel[i].timestamp = g_received
        /\ g_run = 0 => channel = <<>>

\* stop_streaming left a message queued; the listener has pushed the one it
\* was receiving and sleeps, with more messages waiting on the socket.
C35_Witness ==
    /\ ~running
    /\ g_last_op = "stop"
    /\ Len(channel) = 2
    /\ channel[1].timestamp \in g_stale
    /\ channel[2].timestamp \notin g_stale
    /\ l_pc = "sleep"
    /\ g_received < MaxMsgs

\* C36: a call of update_streams made while the flag is false returns at
\* once with the channel and the buffers as they were; in no step taken
\* while the flag is false does the channel lose a message, a buffer change
\* or a drain enter its loop.
C36_StoppedDrainIsNoOp ==
    [][/\ (~running /\ DrainGateReturns)
            => /\ channel' = channel
               /\ streams' = streams
       /\ ~running
            => /\ u_pc' = "idle"
               /\ Len(channel') >= Len(channel)
               /\ streams' = streams]_vars

\* update_streams has been called while the engine is stopped and the
\* channel is full, the listener blocked in the push of a further message.
C36_Witness ==
    /\ ~running
    /\ g_last_op = "update_streams"
    /\ u_pc = "idle"
    /\ Len(channel) = ChannelCapacity
    /\ l_pc = "send"

\* C37: every thread that holds the status-list lock inside stop_streaming,
\* add_streaming_process or check_process_status took the process-list lock
\* before it; and whenever a thread is inside an operation, some thread
\* inside an operation can take its next lock or return: no deadlock.
C37_ProcessLockBeforeStatusLock ==
    /\ \A t \in 1..MaxThreads :
         t_op[t] \in {"stop_streaming", "add_streaming_process",
                      "check_process_status"} =>
            \A i \in DOMAIN t_held[t] :
                t_held[t][i] = "process_statuses" =>
                    /\ i > 1
                    /\ t_held[t][i - 1] = "streaming_processes"
    /\ (\E t \in 1..MaxThreads : t_op[t] # "none") =>
          \E t \in 1..MaxThreads :
              ENABLED thread_locks(t) \/ ENABLED thread_returns(t)

\* One thread holds both locks inside check_process_status while a second,
\* inside stop_streaming, and a third, inside add_streaming_process, hold
\* none and wait for the process-list lock.
C37_Witness ==
    /\ t_op[1] = "check_process_status"
    /\ t_held[1] = <<"streaming_processes", "process_statuses">>
    /\ t_op[2] = "stop_streaming"
    /\ t_held[2] = <<>>
    /\ t_op[3] = "add_streaming_process"
    /\ t_held[3] = <<>>

\* The flight message drained last in this run.
NewestFlightMessage ==
    g_drained["flight_position"][Len(g_drained["flight_position"])]

\* C38: what the cube system reads from the newest flight record as lat,
\* lon, alt, pitch, roll and yaw are the rel_lat, rel_lon, altitude, pitch,
\* roll and yaw of the message that produced the record.
C38_ConsumerReadsStoredOrder ==
    g_drained["flight_position"] # <<>> =>
        /\ update_cube_position_reads(BufferOf("flight_position")) # None
        /\ update_cube_position_reads(BufferOf("flight_position"))[1] =
             [lat   |-> NewestFlightMessage.rel_lat,
              lon   |-> NewestFlightMessage.rel_lon,
              alt   |-> NewestFlightMessage.altitude,
              yaw   |-> NewestFlightMessage.yaw,
              pitch |-> NewestFlightMessage.pitch,
              roll  |-> NewestFlightMessage.roll]

\* The run targets of the configuration: a script and the function name the
\* panels pass for it.
RunTargets ==
    UNION { { <<script, function_name>> :
                function_name \in FunctionNames(script) } : script \in Scripts }

\* C39: the key under which a successful run has stored its result is the
\* key of no other run target: targets that differ in script name or
\* function name have different keys.
C39_DistinctTargetsDistinctKeys ==
    (RunDone /\ g_exit = "exit0") =>
        \A target \in RunTargets :
            <<target[1].name, target[2]>> # <<d_script.name, d_function>>
                => result_key(target[1], target[2]) # RunKey

====
